---- MODULE Spec2Model ----
(***************************************************************************)
(* Kafky event-driven chat: the Event Bus double-emit protocol and the     *)
(* WebSocket gateway (src/unnamed/part_001), the DomainEvent constructor   *)
(* and the browser client (src/domain-event.js) and the Projector          *)
(* (src/unnamed/part_000).  The database layer (database.js) and the       *)
(* Dispatcher (dispatcher.js) are not part of the sources; they are        *)
(* modelled from their contracts.                                          *)
(*                                                                         *)
(* Node runs every handler to completion up to its next `await`; an action *)
(* of this module is one such run-to-completion segment.  The database     *)
(* layer answers asynchronously, so every database call is split into the  *)
(* database's own step (commit / failure) and the continuation that        *)
(* resumes the awaiting function.                                          *)
(***************************************************************************)
EXTENDS Integers, Sequences, FiniteSets, TLC

\* ---------------------------------------------------------------- bounds
MaxMessages == 1      \* 'chat.message.new' frames the gateway publishes
MaxSubscribers == 1   \* extra handlers registered through eventBus.on
MaxInFlight == 2      \* frames of one connection whose publishes may overlap
MaxConstructed == 2   \* constructor calls of a behaviour of SpecConstruct

\* ------------------------------------------------------------- constants
Null == 0
\* the empty string: a value that is supplied and yet falsy for `||`
EmptyId == -1
\* Event type strings are kept as token sequences so that
\* `event.type + '-KAFKED'` is a real concatenation.
IM == "incoming-message"
MP == "message-projected"
KAFKED == "-KAFKED"

Users == {1, 2}
ClientTexts == {"hi"}
Edited == "edited"

\* chats table: chat id -> participants row (absent id -> no row)
ChatTable == (1 :> [id_user1 |-> 1, id_user2 |-> 2]) @@
             (2 :> [id_user1 |-> 1, id_user2 |-> 3])
ChatIds == {1, 2}

\* Handlers other consumers may add next to the Projector and the Dispatcher.
ExtraHandlers == {"Subscriber", "Thrower"}

VARIABLES
  uuidNext,      \* uuidv4(): next fresh identifier
  events,        \* live DomainEvent objects, by eventId
  born,          \* history: every event as its constructor returned it
  given,         \* history: the arguments each constructor call was given
  listeners,     \* EventEmitter subscription table: type -> handlers in order
  emits,         \* one record per call of the intercepted emit, by eventId
  event_log,     \* Event Store: sequence of records, logId = position
  proj,          \* one record per Projector handler invocation, by eventId
  messages,      \* read model: sequence of rows
  subPending,    \* events an asynchronous Subscriber still holds a reference to
  calls,         \* history: every handler invocation with what it observed
  busLog,        \* console.error lines of the bus
  projLog,       \* console.error lines of the Projector
  wsUserId,      \* gateway: ws.userId
  participants,  \* gateway: <<>> (null) or <<row>>
  selecting,     \* gateway: chat ids of 'chat.select' handlers awaiting the db
  published,     \* number of frames the gateway turned into events
  currentUser,   \* browser client: state.currentUser (Null before the click)
  currentChat    \* browser client: state.currentChat (Null before the click)

\* what a synchronous run of the bus and of its handlers may touch
busVars == <<events, born, given, emits, event_log, proj, subPending, calls,
            busLog>>
gatewayVars == <<wsUserId, participants, selecting, published>>
clientVars == <<currentUser, currentChat>>

vars == <<uuidNext, listeners, messages, projLog, busVars, gatewayVars,
          clientVars>>

\* ---------------------------------------------------------------- helpers
Range(s) == {s[i] : i \in DOMAIN s}

KafkedName(type) == Append(type, KAFKED)

IsKafked(type) == Len(type) > 0 /\ type[Len(type)] = KAFKED

\* A lookup that matches by base type: the handlers of the un-suffixed type
\* are run for the suffixed name as well.
ListenersByBase(tbl, type) ==
  LET own == IF type \in DOMAIN tbl THEN tbl[type] ELSE <<>>
      base == SubSeq(type, 1, Len(type) - 1)
  IN IF IsKafked(type) /\ base \in DOMAIN tbl THEN own \o tbl[base] ELSE own

Listeners(tbl, type) == IF type \in DOMAIN tbl THEN tbl[type] ELSE <<>>

\* JavaScript truthiness of an identifier: null/undefined and '' are falsy
Falsy(v) == v \in {Null, EmptyId}

\* The same with `??` in the place of `||`: only null and undefined are
\* replaced.
OrNullNullish(metadata, field) ==
  IF field \in DOMAIN metadata /\ metadata[field] # Null
    THEN metadata[field] ELSE Null

\* domain-event.js: `metadata.x || null`
OrNull(metadata, field) ==
  IF field \in DOMAIN metadata /\ ~Falsy(metadata[field])
    THEN metadata[field] ELSE Null

DomainEvent(uuid, now, type, payload, metadata) ==
  [eventId  |-> uuid,
   type     |-> type,
   payload  |-> payload,
   metadata |-> [timestamp     |-> now,
                 correlationId |-> OrNull(metadata, "correlationId"),
                 causationId   |-> OrNull(metadata, "causationId"),
                 logId         |-> Null]]

\* `new DomainEvent(type, payload, metadata)`: the instance becomes a live
\* object; the histories keep it as constructed, with the arguments given.
Construct(st, uuid, now, type, payload, metadata) ==
  LET ev == DomainEvent(uuid, now, type, payload, metadata)
  IN [st EXCEPT !.events = (uuid :> ev) @@ st.events,
                !.born = (uuid :> ev) @@ st.born,
                !.given = (uuid :> [type |-> type, payload |-> payload,
                                    metadata |-> metadata]) @@ st.given]

\* creation time: a logical clock that counts constructed events
Now == Cardinality(DOMAIN events) + 1

\* ---------------------------------------------------- Event Store (db)
\* db.logEvent appends one row and answers with the row's identifier.
LogAppend(log, record) == Append(log, record)

\* db.getEventByLogId: the row stored at that identifier, or nothing.
getEventByLogId(log, logId) ==
  IF logId \in DOMAIN log THEN <<log[logId]>> ELSE <<>>

\* identifier of the row the store holds for an event (Null: none)
StoreIdOf(log, eventId) ==
  IF \E i \in DOMAIN log : log[i].eventId = eventId
    THEN CHOOSE i \in DOMAIN log : log[i].eventId = eventId
    ELSE Null

\* db.addMessage(chatId, userId, messageText): the new read-model row
NewRow(rows, chatId, userId, messageText) ==
  [id |-> Len(rows) + 1, id_chat |-> chatId, id_user |-> userId,
   message |-> messageText]

\* ------------------------------------------------- the mutable program state
\* The part of the state a synchronous run of the bus and its handlers
\* touches, threaded through the steps in program order.
Cur ==
  [events |-> events, born |-> born, given |-> given, emits |-> emits,
   proj |-> proj,
   subPending |-> subPending, calls |-> calls, busLog |-> busLog,
   event_log |-> event_log]

\* the run's final state becomes the program's state (computed once)
Install(st) ==
  \E s \in {st} :
    /\ events' = s.events
    /\ born' = s.born
    /\ given' = s.given
    /\ emits' = s.emits
    /\ proj' = s.proj
    /\ subPending' = s.subPending
    /\ calls' = s.calls
    /\ busLog' = s.busLog
    /\ event_log' = s.event_log

\* --------------------------------------------------------------- handlers
\* What a handler is handed and what the store holds at that instant.
CallRecord(st, h, idx, phase, name, id) ==
  LET ev == st.events[id]
      same == {c \in st.calls : c.handler = h /\ c.idx = idx /\
                                c.phase = phase /\ c.eventId = id}
  IN [handler |-> h, idx |-> idx, phase |-> phase, name |-> name,
      eventId |-> id, n |-> Cardinality(same) + 1,
      type |-> ev.type, logId |-> ev.metadata.logId, payload |-> ev.payload,
      issued |-> (id \in DOMAIN st.emits /\ st.emits[id].issued),
      storeId |-> StoreIdOf(st.event_log, id)]

\* A Projector that strips the suffix from the notification it was handed
\* before it goes on.
ProjectorStartStripping(st, id) ==
  LET type == st.events[id].type
      st1 == [st EXCEPT !.events[id].type = SubSeq(type, 1, Len(type) - 1)]
  IN [st1 EXCEPT !.proj = (id :> [pc |-> "awaitFetch",
                                  logId |-> st.events[id].metadata.logId,
                                  answered |-> FALSE, fetched |-> <<>>,
                                  args |-> <<>>,
                                  res |-> "none", row |-> <<>>, out |-> Null])
                          @@ st.proj]

\* Projector, up to its first await: it keeps the notification and asks the
\* store for the row at metadata.logId.
ProjectorStart(st, id) ==
  [st EXCEPT !.proj = (id :> [pc |-> "awaitFetch",
                              logId |-> st.events[id].metadata.logId,
                              answered |-> FALSE, fetched |-> <<>>,
                              args |-> <<>>,
                              res |-> "none", row |-> <<>>, out |-> Null])
                      @@ st.proj]

\* the edit an asynchronous Subscriber makes to the payload it was handed
EditText(payload, text) ==
  IF "messageText" \in DOMAIN payload
    THEN [payload EXCEPT !.messageText = text]
    ELSE [payload EXCEPT !.message = text]

\* A consumer that keeps the event object and works on it asynchronously.
SubscriberStart(st, id) ==
  [st EXCEPT !.subPending = st.subPending \cup {id}]

ApplyHandler(st, h, id) ==
  CASE h = "Projector"  -> ProjectorStart(st, id)
    [] h = "Subscriber" -> SubscriberStart(st, id)
    [] OTHER            -> st

\* EventEmitter.prototype.emit: the listeners of `type`, in registration
\* order, synchronously; a listener that throws ends the loop and the
\* exception leaves emit.
RECURSIVE RunListeners(_, _, _, _, _, _)
RunListeners(st, hs, i, phase, name, id) ==
  IF i > Len(hs) THEN [st |-> st, threw |-> FALSE]
  ELSE LET rec == CallRecord(st, hs[i], i, phase, name, id)
           st1 == [st EXCEPT !.calls = st.calls \cup {rec}]
       IN IF hs[i] = "Thrower"
            THEN [st |-> st1, threw |-> TRUE]
            ELSE RunListeners(ApplyHandler(st1, hs[i], id), hs, i + 1,
                              phase, name, id)

NativeEmit(st, tbl, type, phase, id) ==
  RunListeners(st, Listeners(tbl, type), 1, phase, type, id)

\* ------------------------------------------------ EventBusWrapper: emit
\* The eager emit of an event that was renamed before it was announced.
EmitEagerRenamed(st, tbl, id) ==
  LET name == st.events[id].type
      st1 == [st EXCEPT !.events[id].type = KafkedName(name)]
  IN NativeEmit(st1, tbl, name, "eager", id)

\* An interceptor that lets the original emit run as well: the eager
\* listeners are run a second time.
EmitEagerTwice(st, tbl, id) ==
  LET r == NativeEmit(st, tbl, st.events[id].type, "eager", id)
  IN IF r.threw THEN r
     ELSE NativeEmit(r.st, tbl, st.events[id].type, "eager", id)

\* STEP 0: the eager emit, under the event's current type.
EmitEager(st, tbl, id) ==
  NativeEmit(st, tbl, st.events[id].type, "eager", id)

\* STEP 1, the call: db.logEvent(event) is handed the event as it is now.
IssueLogEvent(st, id) ==
  LET before == IF id \in DOMAIN st.emits THEN st.emits[id].appends ELSE 0
  IN [st EXCEPT !.emits = (id :> [pc |-> "awaitLogEvent", issued |-> TRUE,
                                  snap |-> st.events[id], res |-> "none",
                                  rowId |-> Null, appends |-> before + 1])
                          @@ st.emits]

\* A catch block that logs and throws again: the promise of the call is
\* rejected.
BusCatchRethrowing(st, id) ==
  LET was == IF id \in DOMAIN st.emits THEN st.emits[id]
             ELSE [pc |-> "caught", issued |-> FALSE, snap |-> st.events[id],
                   res |-> "none", rowId |-> Null, appends |-> 0]
  IN [st EXCEPT !.busLog = st.busLog \cup
                   {[eventId |-> id, type |-> st.events[id].type]},
                !.emits = (id :> [was EXCEPT !.pc = "rejected"]) @@ st.emits]

\* catch (error): console.error of the bus; nothing else is done.
BusCatch(st, id) ==
  LET was == IF id \in DOMAIN st.emits THEN st.emits[id]
             ELSE [pc |-> "caught", issued |-> FALSE, snap |-> st.events[id],
                   res |-> "none", rowId |-> Null, appends |-> 0]
  IN [st EXCEPT !.busLog = st.busLog \cup
                   {[eventId |-> id, type |-> st.events[id].type]},
                !.emits = (id :> [was EXCEPT !.pc = "caught"]) @@ st.emits]

\* The same without the await: the guaranteed emit follows the call of
\* db.logEvent at once.
EmitCallUnawaited(st, tbl, id) ==
  LET r == EmitEager(st, tbl, id)
      st1 == IssueLogEvent(r.st, id)
      kafkedEventName == KafkedName(st1.events[id].type)
      st2 == [st1 EXCEPT !.events[id].type = kafkedEventName]
      g == NativeEmit(st2, tbl, kafkedEventName, "guaranteed", id)
  IN IF r.threw THEN BusCatch(r.st, id) ELSE g.st

\* The same with STEP 0 and STEP 1 exchanged: db.logEvent is called first.
EmitCallLogFirst(st, tbl, id) ==
  LET r == EmitEager(IssueLogEvent(st, id), tbl, id)
  IN IF r.threw THEN BusCatch(r.st, id) ELSE r.st

\* A bus that announces only what it has stored: the eager emit is left out
\* and the event goes straight to db.logEvent.
EmitCallDeferred(st, tbl, id) == IssueLogEvent(st, id)

\* A bus that awaits what its eager handlers return: the work a Subscriber
\* started is finished before db.logEvent is called.
EmitCallAwaitingEager(st, tbl, id) ==
  LET r == EmitEager(st, tbl, id)
      st1 == IF id \in r.st.subPending
               THEN [r.st EXCEPT !.subPending = r.st.subPending \ {id},
                                 !.events[id].payload = EditText(@, Edited)]
               ELSE r.st
  IN IF r.threw THEN BusCatch(r.st, id) ELSE IssueLogEvent(st1, id)

\* An interceptor that goes on to the append although the eager emit threw.
EmitCallIgnoringThrow(st, tbl, id) ==
  LET r == EmitEager(st, tbl, id)
  IN IssueLogEvent(r.st, id)

\* The intercepted emit up to its await.
EmitCall(st, tbl, id) ==
  LET r == EmitEager(st, tbl, id)
  IN IF r.threw THEN BusCatch(r.st, id) ELSE IssueLogEvent(r.st, id)

\* The same with the destructuring `{ eventId: logId }` applied to the event
\* instead of the store's answer.
PromoteWithEventId(st, id, logId, kafkedEventName) ==
  [st EXCEPT !.events[id].metadata.logId = st.events[id].eventId,
             !.events[id].type = kafkedEventName]

\* STEP 2 with the assignment of metadata.logId left out.
PromoteTypeOnly(st, id, logId, kafkedEventName) ==
  [st EXCEPT !.events[id].type = kafkedEventName]

\* STEP 2 followed by a write of the promoted event over its stored record.
PromoteStored(st, id, logId, kafkedEventName) ==
  [st EXCEPT !.events[id].metadata.logId = logId,
             !.events[id].type = kafkedEventName,
             !.event_log[logId].type = kafkedEventName,
             !.event_log[logId].metadata.logId = logId]

\* STEP 2: event.metadata.logId = logId; event.type = kafkedEventName.
Promote(st, id, logId, kafkedEventName) ==
  [st EXCEPT !.events[id].metadata.logId = logId,
             !.events[id].type = kafkedEventName]

\* A bus that keeps the store's answer in a field shared by all publishes:
\* the resumed publish takes the identifier of the latest row.
EmitAfterLogLatestRow(st, tbl, id) ==
  LET logId == Len(st.event_log)
      kafkedEventName == KafkedName(st.events[id].type)
      st2 == Promote(st, id, logId, kafkedEventName)
      r == NativeEmit(st2, tbl, kafkedEventName, "guaranteed", id)
  IN IF r.threw THEN BusCatch(r.st, id)
     ELSE [r.st EXCEPT !.emits[id].pc = "done"]

\* An interceptor that ends after STEP 2: the event is promoted and the
\* guaranteed emit is left out.
EmitAfterLogSilent(st, tbl, id) ==
  LET logId == st.emits[id].rowId
      kafkedEventName == KafkedName(st.events[id].type)
      st2 == Promote(st, id, logId, kafkedEventName)
  IN [st2 EXCEPT !.emits[id].pc = "done"]

\* A catch path that undoes the promotion when a guaranteed-phase handler
\* raised: the event gets its type back and loses its logId.
EmitAfterLogDemoting(st, tbl, id) ==
  LET logId == st.emits[id].rowId
      kafkedEventName == KafkedName(st.events[id].type)
      st2 == Promote(st, id, logId, kafkedEventName)
      r == NativeEmit(st2, tbl, kafkedEventName, "guaranteed", id)
  IN IF r.threw
       THEN BusCatch([r.st EXCEPT !.events[id].type = st.events[id].type,
                                  !.events[id].metadata.logId = Null], id)
       ELSE [r.st EXCEPT !.emits[id].pc = "done"]

\* The intercepted emit after `await db.logEvent(event)` has resolved.
EmitAfterLog(st, tbl, id) ==
  LET logId == st.emits[id].rowId
      kafkedEventName == KafkedName(st.events[id].type)
      st2 == Promote(st, id, logId, kafkedEventName)
      r == NativeEmit(st2, tbl, kafkedEventName, "guaranteed", id)
  IN IF r.threw THEN BusCatch(r.st, id)
     ELSE [r.st EXCEPT !.emits[id].pc = "done"]

\* A catch that still marks the event as guaranteed.
EmitAfterLogFailedPromoting(st, id) ==
  [BusCatch(st, id) EXCEPT
     !.emits[id].res = "err",
     !.events[id].type = KafkedName(st.events[id].type)]

\* A catch that tries the append once more before it gives up.
EmitAfterLogFailedRetrying(st, id) ==
  IF st.emits[id].appends < 2
    THEN IssueLogEvent(st, id)
    ELSE [BusCatch(st, id) EXCEPT !.emits[id].res = "err"]

\* The intercepted emit after `await db.logEvent(event)` has rejected.
EmitAfterLogFailed(st, id) ==
  [BusCatch(st, id) EXCEPT !.emits[id].res = "err"]

\* ------------------------------------------------------------- Projector
\* What the store answers to getEventByLogId: the row, or, when the store
\* misbehaves, nothing or a row of another type.
FetchOutcomes == {"row", "missing", "mismatch"}

FetchAnswer(log, logId, outcome) ==
  LET hit == getEventByLogId(log, logId)
  IN CASE outcome = "row"      -> hit
       [] outcome = "mismatch" ->
            IF hit = <<>> THEN <<>> ELSE <<[hit[1] EXCEPT !.type = <<MP>>]>>
       [] OTHER                -> <<>>

\* The same check without the comparison of the type.
InvalidSourceMissingOnly(fetched) == fetched = <<>>

\* `!event || event.type !== 'incoming-message'`
InvalidSource(fetched) == fetched = <<>> \/ fetched[1].type # <<IM>>

\* `const { chatId, userId, messageText } = payload;` where payload was taken
\* from the notification (incomingEvent) at the top of the handler.
ProjectionSource(incomingEvent, fetched) == incomingEvent.payload

\* The Projector between its two awaits: the answer of getEventByLogId is
\* validated and addMessage is called.
AfterFetch(p, incomingEvent, fetched) ==
  LET q == [p EXCEPT !.answered = TRUE, !.fetched = fetched]
  IN IF InvalidSource(fetched)
       THEN [q EXCEPT !.pc = "aborted"]
       ELSE LET src == ProjectionSource(incomingEvent, fetched[1])
            IN [q EXCEPT !.pc = "awaitWrite",
                         !.args = <<src.chatId, src.userId, src.messageText>>]

\* A Projector that works through the log in order: the answer of the
\* re-fetch is taken up only when no run for an earlier record is still
\* suspended.
ProjectorAfterFetchInLogOrder(id, outcome) ==
  /\ id \in DOMAIN proj
  /\ proj[id].pc = "awaitFetch"
  /\ \A o \in DOMAIN proj :
       (proj[o].logId < proj[id].logId) =>
         proj[o].pc \notin {"awaitFetch", "awaitWrite"}
  /\ LET p == AfterFetch(proj[id], events[id],
                         FetchAnswer(event_log, proj[id].logId, outcome))
     IN /\ proj' = [proj EXCEPT ![id] = p]
        /\ projLog' = IF p.pc = "aborted"
                        THEN projLog \cup {[eventId |-> id, line |-> "invalid"]}
                        ELSE projLog
  /\ UNCHANGED <<uuidNext, listeners, messages, events, born, given, emits,
                 event_log,
                 subPending, calls, busLog, gatewayVars, clientVars>>

ProjectorAfterFetch(id, outcome) ==
  /\ id \in DOMAIN proj
  /\ proj[id].pc = "awaitFetch"
  /\ LET p == AfterFetch(proj[id], events[id],
                         FetchAnswer(event_log, proj[id].logId, outcome))
     IN /\ proj' = [proj EXCEPT ![id] = p]
        /\ projLog' = IF p.pc = "aborted"
                        THEN projLog \cup {[eventId |-> id, line |-> "invalid"]}
                        ELSE projLog
  /\ UNCHANGED <<uuidNext, listeners, messages, events, born, given, emits,
                 event_log,
                 subPending, calls, busLog, gatewayVars, clientVars>>

\* getEventByLogId rejects: catch (error), console.error.
ProjectorFetchFailed(id) ==
  /\ id \in DOMAIN proj
  /\ proj[id].pc = "awaitFetch"
  /\ proj' = [proj EXCEPT ![id].pc = "caught"]
  /\ projLog' = projLog \cup {[eventId |-> id, line |-> "failed"]}
  /\ UNCHANGED <<uuidNext, listeners, messages, events, born, given, emits,
                 event_log,
                 subPending, calls, busLog, gatewayVars, clientVars>>

\* The database executes addMessage: the row is written and is on its way
\* back to the Projector.
DbAddMessage(id) ==
  /\ id \in DOMAIN proj
  /\ proj[id].pc = "awaitWrite"
  /\ proj[id].res = "none"
  /\ LET a == proj[id].args
         row == NewRow(messages, a[1], a[2], a[3])
     IN /\ messages' = Append(messages, row)
        /\ proj' = [proj EXCEPT ![id].res = "ok", ![id].row = <<row>>]
  /\ UNCHANGED <<uuidNext, listeners, projLog, events, born, given, emits,
                 event_log,
                 subPending, calls, busLog, gatewayVars, clientVars>>

\* The same with the store's identifier of the trigger written where its
\* eventId belongs.
PublishProjectedByLogId(st, tbl, uuid, now, incomingEvent, projectedMessage) ==
  LET st1 == Construct(st, uuid, now, <<MP>>, projectedMessage,
                       [correlationId |-> incomingEvent.metadata.correlationId,
                        causationId |-> incomingEvent.metadata.logId])
  IN EmitCall(st1, tbl, uuid)

\* STEP 3 of the Projector: the projected event is constructed and handed to
\* the bus (the emit is not awaited).
PublishProjected(st, tbl, uuid, now, incomingEvent, projectedMessage) ==
  LET projectedEvent ==
        Construct(st, uuid, now, <<MP>>, projectedMessage,
                  [correlationId |-> incomingEvent.metadata.correlationId,
                   causationId |-> incomingEvent.eventId])
  IN EmitCall(projectedEvent, tbl, uuid)

\* The same without the await of db.addMessage: the projected event is
\* published while the write is still on its way.
ProjectorAfterWriteUnawaited(id) ==
  /\ id \in DOMAIN proj
  /\ proj[id].pc = "awaitWrite"
  /\ proj[id].res = "none"
  /\ LET a == proj[id].args
         st0 == [Cur EXCEPT !.proj[id].pc = "done", !.proj[id].out = uuidNext]
     IN Install(PublishProjected(st0, listeners, uuidNext, Now, events[id],
                                 NewRow(messages, a[1], a[2], a[3])))
  /\ uuidNext' = uuidNext + 1
  /\ UNCHANGED <<listeners, messages, projLog, gatewayVars, clientVars>>

\* After `await this.db.addMessage(...)` has resolved.
ProjectorAfterWrite(id) ==
  /\ id \in DOMAIN proj
  /\ proj[id].pc = "awaitWrite"
  /\ proj[id].res = "ok"
  /\ LET st0 == [Cur EXCEPT !.proj[id].pc = "done", !.proj[id].out = uuidNext]
     IN Install(PublishProjected(st0, listeners, uuidNext, Now,
                                 events[id], proj[id].row[1]))
  /\ uuidNext' = uuidNext + 1
  /\ UNCHANGED <<listeners, messages, projLog, gatewayVars, clientVars>>

\* A Projector whose catch does not end the handler: the failure is logged
\* and STEP 3 runs all the same.
ProjectorWriteFailedPublishing(id) ==
  /\ id \in DOMAIN proj
  /\ proj[id].pc = "awaitWrite"
  /\ proj[id].res = "none"
  /\ LET a == proj[id].args
         st0 == [Cur EXCEPT !.proj[id].pc = "caught", !.proj[id].res = "err"]
     IN Install(PublishProjected(st0, listeners, uuidNext, Now, events[id],
                                 NewRow(messages, a[1], a[2], a[3])))
  /\ uuidNext' = uuidNext + 1
  /\ projLog' = projLog \cup {[eventId |-> id, line |-> "failed"]}
  /\ UNCHANGED <<listeners, messages, gatewayVars, clientVars>>

\* db.addMessage rejects (no row was written): catch (error), console.error.
ProjectorWriteFailed(id) ==
  /\ id \in DOMAIN proj
  /\ proj[id].pc = "awaitWrite"
  /\ proj[id].res = "none"
  /\ proj' = [proj EXCEPT ![id].pc = "caught", ![id].res = "err"]
  /\ projLog' = projLog \cup {[eventId |-> id, line |-> "failed"]}
  /\ UNCHANGED <<uuidNext, listeners, messages, events, born, given, emits,
                 event_log,
                 subPending, calls, busLog, gatewayVars, clientVars>>

\* ------------------------------------------------------------ bus actions
\* The database executes logEvent: the row is appended and its identifier
\* is on its way back to the bus.
DbLogEvent(id) ==
  /\ id \in DOMAIN emits
  /\ emits[id].pc = "awaitLogEvent"
  /\ emits[id].res = "none"
  /\ event_log' = LogAppend(event_log, emits[id].snap)
  /\ emits' = [emits EXCEPT ![id].res = "ok",
                            ![id].rowId = Len(event_log) + 1]
  /\ UNCHANGED <<uuidNext, listeners, messages, projLog, events, born, given,
                 proj,
                 subPending, calls, busLog, gatewayVars, clientVars>>

\* A bus that holds a lock from the entry of emit to its end: a publish is
\* resumed only when no earlier publish is still suspended.
EmitResumeInOrder(id) ==
  /\ id \in DOMAIN emits
  /\ emits[id].pc = "awaitLogEvent"
  /\ emits[id].res = "ok"
  /\ \A o \in DOMAIN emits : o < id => emits[o].pc # "awaitLogEvent"
  /\ Install(EmitAfterLog(Cur, listeners, id))
  /\ UNCHANGED <<uuidNext, listeners, messages, projLog, gatewayVars,
                 clientVars>>

EmitResume(id) ==
  /\ id \in DOMAIN emits
  /\ emits[id].pc = "awaitLogEvent"
  /\ emits[id].res = "ok"
  /\ Install(EmitAfterLog(Cur, listeners, id))
  /\ UNCHANGED <<uuidNext, listeners, messages, projLog, gatewayVars,
                 clientVars>>

\* db.logEvent rejects (nothing was appended) and the bus resumes in catch.
EmitRejected(id) ==
  /\ id \in DOMAIN emits
  /\ emits[id].pc = "awaitLogEvent"
  /\ emits[id].res = "none"
  /\ Install(EmitAfterLogFailed(Cur, id))
  /\ UNCHANGED <<uuidNext, listeners, messages, projLog, gatewayVars,
                 clientVars>>

\* eventBus.on(type, handler): delegated to the native EventEmitter.
SubscribableTypes == {<<IM>>, <<IM, KAFKED>>, <<MP>>, <<MP, KAFKED>>}

ExtraCount(tbl) ==
  Cardinality({<<t, i>> \in SubscribableTypes \X (1..(MaxSubscribers + 2)) :
                 i \in DOMAIN tbl[t] /\ tbl[t][i] \in ExtraHandlers})

\* A registration that puts the new handler in front of the earlier ones
\* (prependListener).
OnFirst(tbl, type, handler) == [tbl EXCEPT ![type] = <<handler>> \o @]

On(tbl, type, handler) == [tbl EXCEPT ![type] = Append(@, handler)]

\* Consumers subscribe while the application is wired, before the server
\* accepts connections.
Subscribe(type, handler) ==
  /\ currentUser = Null
  /\ ExtraCount(listeners) < MaxSubscribers
  /\ listeners' = On(listeners, type, handler)
  /\ UNCHANGED <<uuidNext, messages, projLog, busVars, gatewayVars,
                 clientVars>>

\* An asynchronous Subscriber finishes its work on the event object it was
\* handed, editing the text in place.
SubscriberResume(id) ==
  /\ id \in subPending
  /\ subPending' = subPending \ {id}
  /\ events' = [events EXCEPT ![id].payload = EditText(@, Edited)]
  /\ UNCHANGED <<uuidNext, listeners, messages, projLog, born, given, emits,
                 event_log,
                 proj, calls, busLog, gatewayVars, clientVars>>

\* ---------------------------------------------------------------- gateway
\* case 'user.identify'
UserIdentify(userId) ==
  /\ wsUserId' = userId
  /\ UNCHANGED <<participants, selecting, published>>
  /\ UNCHANGED <<uuidNext, listeners, messages, projLog, busVars>>

\* case 'chat.select', up to `await db.getChatParticipants(chatId)`
ChatSelect(chatId) ==
  /\ wsUserId # Null
  /\ selecting = Null
  /\ selecting' = chatId
  /\ UNCHANGED <<wsUserId, participants, published>>
  /\ UNCHANGED <<uuidNext, listeners, messages, projLog, busVars>>

getChatParticipants(chatId) ==
  IF chatId \in DOMAIN ChatTable THEN <<ChatTable[chatId]>> ELSE <<>>

\* case 'chat.select', the continuation: participants = await ...
ChatSelectResume ==
  /\ selecting # Null
  /\ participants' = getChatParticipants(selecting)
  /\ selecting' = Null
  /\ UNCHANGED <<wsUserId, published>>
  /\ UNCHANGED <<uuidNext, listeners, messages, projLog, busVars, clientVars>>

\* `!participants || (ws.userId !== id_user1 && ws.userId !== id_user2)`
Refused(userId, parts) ==
  parts = <<>> \/ (userId # parts[1].id_user1 /\ userId # parts[1].id_user2)

\* new DomainEvent('incoming-message', {...}, { correlationId }); emit
PublishIncoming(st, tbl, correlationId, uuid, now, chatId, userId, text) ==
  LET incomingMessageEvent ==
        Construct(st, uuid, now, <<IM>>,
                  [chatId |-> chatId, userId |-> userId, messageText |-> text],
                  [correlationId |-> correlationId])
  IN EmitCall(incomingMessageEvent, tbl, uuid)

\* case 'chat.message.new', when the frame is turned into an event; `limit`
\* caps the number of frames a behaviour contains
ChatMessageNewWithin(limit, chatId, text) ==
  /\ wsUserId # Null
  /\ ~Refused(wsUserId, participants)
  /\ published < limit
  /\ Install(PublishIncoming(Cur, listeners, uuidNext, uuidNext + 1, Now,
                             chatId, wsUserId, text))
  /\ uuidNext' = uuidNext + 2
  /\ published' = published + 1
  /\ UNCHANGED <<wsUserId, participants, selecting>>
  /\ UNCHANGED <<listeners, messages, projLog>>

ChatMessageNew(chatId, text) == ChatMessageNewWithin(MaxMessages, chatId, text)

\* ----------------------------------------------------------- browser client
\* main.js: the chats renderChatSelection offers to a user
UserChats(userId) ==
  {c \in DOMAIN ChatTable :
     userId = ChatTable[c].id_user1 \/ userId = ChatTable[c].id_user2}

\* click in the user panel (the panel is hidden afterwards)
ClientIdentify(userId) ==
  /\ currentUser = Null
  /\ currentUser' = userId
  /\ currentChat' = currentChat
  /\ UserIdentify(userId)

\* click in the chat list (the list is hidden afterwards)
ClientSelect(chatId) ==
  /\ currentUser # Null
  /\ currentChat = Null
  /\ chatId \in UserChats(currentUser)
  /\ currentChat' = chatId
  /\ currentUser' = currentUser
  /\ ChatSelect(chatId)

\* submit of the message form
ClientSubmit(text) ==
  /\ currentChat # Null
  /\ UNCHANGED clientVars
  /\ ChatMessageNew(currentChat, text)

\* A wiring that registers the Projector twice for the guaranteed phase.
WiringProjectorTwice ==
  [t \in SubscribableTypes |->
     CASE t = <<MP>>         -> <<"Dispatcher">>
       [] t = <<IM, KAFKED>> -> <<"Projector", "Projector">>
       [] OTHER              -> <<>>]

\* ------------------------------------------------------------------ system
\* A wiring in which the Projector listens to the eager event.
WiringEagerProjector ==
  [t \in SubscribableTypes |->
     CASE t = <<MP>> -> <<"Dispatcher">>
       [] t = <<IM>> -> <<"Projector">>
       [] OTHER      -> <<>>]

\* Application wiring: dispatcher.listen(); persistenceService.listen();
Wiring ==
  [t \in SubscribableTypes |->
     CASE t = <<MP>>         -> <<"Dispatcher">>
       [] t = <<IM, KAFKED>> -> <<"Projector">>
       [] OTHER              -> <<>>]

Init ==
  /\ uuidNext = 1
  /\ events = <<>>
  /\ born = <<>>
  /\ given = <<>>
  /\ listeners = Wiring
  /\ emits = <<>>
  /\ event_log = <<>>
  /\ proj = <<>>
  /\ messages = <<>>
  /\ subPending = {}
  /\ calls = {}
  /\ busLog = {}
  /\ projLog = {}
  /\ wsUserId = Null
  /\ participants = <<>>
  /\ selecting = Null
  /\ published = 0
  /\ currentUser = Null
  /\ currentChat = Null

EventIds == 1..(3 * MaxMessages)

Next ==
  \/ \E u \in Users : ClientIdentify(u)
  \/ \E c \in ChatIds : ClientSelect(c)
  \/ ChatSelectResume
  \/ \E t \in ClientTexts : ClientSubmit(t)
  \/ \E t \in SubscribableTypes, h \in ExtraHandlers : Subscribe(t, h)
  \/ \E id \in EventIds : DbLogEvent(id)
  \/ \E id \in EventIds : EmitResume(id)
  \/ \E id \in EventIds : EmitRejected(id)
  \/ \E id \in EventIds, o \in FetchOutcomes : ProjectorAfterFetch(id, o)
  \/ \E id \in EventIds : ProjectorFetchFailed(id)
  \/ \E id \in EventIds : DbAddMessage(id)
  \/ \E id \in EventIds : ProjectorAfterWrite(id)
  \/ \E id \in EventIds : ProjectorWriteFailed(id)
  \/ \E id \in EventIds : SubscriberResume(id)

Spec == Init /\ [][Next]_vars

\* The application as shipped (no consumer besides the Projector and the
\* Dispatcher) with a client that submits again before the first message
\* has gone through: several publishes are in flight at once.
ConcurrentSubmit(text) ==
  /\ currentChat # Null
  /\ UNCHANGED clientVars
  /\ ChatMessageNewWithin(MaxInFlight, currentChat, text)

InFlightEventIds == 1..(3 * MaxInFlight)

NextConcurrent ==
  \/ \E u \in Users : ClientIdentify(u)
  \/ \E c \in ChatIds : ClientSelect(c)
  \/ ChatSelectResume
  \/ \E t \in ClientTexts : ConcurrentSubmit(t)
  \/ \E id \in InFlightEventIds : DbLogEvent(id)
  \/ \E id \in InFlightEventIds : EmitResume(id)
  \/ \E id \in InFlightEventIds : EmitRejected(id)
  \/ \E id \in InFlightEventIds, o \in FetchOutcomes :
       ProjectorAfterFetch(id, o)
  \/ \E id \in InFlightEventIds : ProjectorFetchFailed(id)
  \/ \E id \in InFlightEventIds : DbAddMessage(id)
  \/ \E id \in InFlightEventIds : ProjectorAfterWrite(id)
  \/ \E id \in InFlightEventIds : ProjectorWriteFailed(id)

SpecConcurrent == Init /\ [][NextConcurrent]_vars

\* The constructor on its own: any caller, any arguments.  <<>> is the
\* omitted metadata argument (the default `{}`).
ConstructTypes == {<<IM>>, <<MP>>}

ConstructPayloads == {[chatId |-> 1, userId |-> 1, messageText |-> "hi"]}

MetadataInputs ==
  {<<>>,
   [correlationId |-> 1],
   [correlationId |-> 1, causationId |-> 2],
   [correlationId |-> EmptyId, causationId |-> 2],
   [correlationId |-> 1, causationId |-> Null],
   [correlationId |-> 1, causationId |-> 2, logId |-> 3]}

NewDomainEvent(type, payload, metadata) ==
  /\ Cardinality(DOMAIN born) < MaxConstructed
  /\ Install(Construct(Cur, uuidNext, Now, type, payload, metadata))
  /\ uuidNext' = uuidNext + 1
  /\ UNCHANGED <<listeners, messages, projLog, gatewayVars, clientVars>>

NextConstruct ==
  \E t \in ConstructTypes, p \in ConstructPayloads, m \in MetadataInputs :
    NewDomainEvent(t, p, m)

SpecConstruct == Init /\ [][NextConstruct]_vars

\* The gateway facing any client: frames of any type, in any order, naming
\* any user and any chat.
FrameIdentify(userId) == UserIdentify(userId) /\ UNCHANGED clientVars

FrameSelect(chatId) == ChatSelect(chatId) /\ UNCHANGED clientVars

FrameMessage(chatId, text) ==
  ChatMessageNew(chatId, text) /\ UNCHANGED clientVars

NextGateway ==
  \/ \E u \in Users : FrameIdentify(u)
  \/ \E c \in ChatIds : FrameSelect(c)
  \/ ChatSelectResume
  \/ \E c \in ChatIds, t \in ClientTexts : FrameMessage(c, t)
  \/ \E id \in EventIds : DbLogEvent(id)
  \/ \E id \in EventIds : EmitResume(id)
  \/ \E id \in EventIds : EmitRejected(id)
  \/ \E id \in EventIds, o \in FetchOutcomes : ProjectorAfterFetch(id, o)
  \/ \E id \in EventIds : ProjectorFetchFailed(id)
  \/ \E id \in EventIds : DbAddMessage(id)
  \/ \E id \in EventIds : ProjectorAfterWrite(id)
  \/ \E id \in EventIds : ProjectorWriteFailed(id)

SpecGateway == Init /\ [][NextGateway]_vars

\* The event loop runs every continuation whose promise has settled: a
\* publish whose append has committed is resumed, and so is a Projector
\* whose write has committed.  Nothing is assumed of the client or of the
\* database (a request may stay unanswered, or fail).
Resumable ==
  \E id \in EventIds : EmitResume(id) \/ ProjectorAfterWrite(id)

Scheduling == WF_vars(Resumable)

\* The application driven by the browser client, with consumers that raise
\* an error in the guaranteed phase of 'incoming-message', next to the
\* Projector.
NextShipped ==
  \/ Subscribe(<<IM, KAFKED>>, "Thrower")
  \/ \E u \in Users : ClientIdentify(u)
  \/ \E c \in ChatIds : ClientSelect(c)
  \/ ChatSelectResume
  \/ \E t \in ClientTexts : ClientSubmit(t)
  \/ \E id \in EventIds : DbLogEvent(id)
  \/ \E id \in EventIds : EmitResume(id)
  \/ \E id \in EventIds : EmitRejected(id)
  \/ \E id \in EventIds, o \in FetchOutcomes : ProjectorAfterFetch(id, o)
  \/ \E id \in EventIds : ProjectorFetchFailed(id)
  \/ \E id \in EventIds : DbAddMessage(id)
  \/ \E id \in EventIds : ProjectorAfterWrite(id)
  \/ \E id \in EventIds : ProjectorWriteFailed(id)

SpecFair == Init /\ [][NextShipped]_vars /\ Scheduling

\* ------------------------------------------- a producer that awaits publish
\* `await eventBus.emit(A); await eventBus.emit(B);`: the promise of the
\* interceptor settles when it returns, after the guaranteed emit or after
\* its catch block.  The wiring may add an "Observer", a synchronous eager
\* consumer of 'incoming-message' that returns normally, and consumers that
\* raise in the guaranteed phase.
PublishCompleted(id) ==
  /\ id \in DOMAIN emits
  /\ emits[id].pc \in {"done", "caught"}

AwaitingSubmit(text) ==
  /\ \A id \in DOMAIN emits : born[id].type = <<IM>> => PublishCompleted(id)
  /\ ConcurrentSubmit(text)

NextSequential ==
  \/ Listeners(listeners, <<IM>>) = <<>> /\ Subscribe(<<IM>>, "Observer")
  \/ Subscribe(<<IM, KAFKED>>, "Thrower")
  \/ \E u \in Users : ClientIdentify(u)
  \/ \E c \in ChatIds : ClientSelect(c)
  \/ ChatSelectResume
  \/ \E t \in ClientTexts : AwaitingSubmit(t)
  \/ \E id \in InFlightEventIds : DbLogEvent(id)
  \/ \E id \in InFlightEventIds : EmitResume(id)
  \/ \E id \in InFlightEventIds : EmitRejected(id)
  \/ \E id \in InFlightEventIds, o \in FetchOutcomes :
       ProjectorAfterFetch(id, o)
  \/ \E id \in InFlightEventIds : ProjectorFetchFailed(id)
  \/ \E id \in InFlightEventIds : DbAddMessage(id)
  \/ \E id \in InFlightEventIds : ProjectorAfterWrite(id)
  \/ \E id \in InFlightEventIds : ProjectorWriteFailed(id)

SpecSequential == Init /\ [][NextSequential]_vars

\* ================================================================ claims
OrigType(id) == born[id].type

EagerCalls(id) == {c \in calls : c.eventId = id /\ c.phase = "eager"}

GuaranteedCalls(id) == {c \in calls : c.eventId = id /\ c.phase = "guaranteed"}

Committed(id) == StoreIdOf(event_log, id) # Null

AppendFailed(id) == id \in DOMAIN emits /\ emits[id].res = "err"

\* C1  Persistence before confirmation: whenever a handler subscribed to the
\* '-KAFKED' type of an event is invoked with that event, the store already
\* holds the row of that same event and has answered with its identifier.
C1_PersistBeforeConfirm ==
  \A c \in calls :
    c.name = KafkedName(OrigType(c.eventId)) =>
      /\ c.storeId # Null
      /\ event_log[c.storeId].eventId = c.eventId
      /\ emits[c.eventId].res = "ok"
      /\ emits[c.eventId].rowId = c.storeId

C1_Witness ==
  \E c \in calls :
    /\ c.handler = "Projector"
    /\ c.name = <<IM, KAFKED>>
    /\ c.storeId # Null

\* C2  When the append of a published event fails, the event keeps its
\* un-suffixed type and has no logId, no guaranteed-phase handler has been
\* invoked for it, the bus has reported the failure, and each eager-phase
\* handler of the event has been invoked exactly once.
C2_AppendFailure ==
  \A id \in DOMAIN emits :
    AppendFailed(id) =>
      /\ events[id].type = OrigType(id)
      /\ ~IsKafked(events[id].type)
      /\ events[id].metadata.logId = Null
      /\ GuaranteedCalls(id) = {}
      /\ \E l \in busLog : l.eventId = id
      /\ ~Committed(id)
      /\ \A i \in DOMAIN Listeners(listeners, OrigType(id)) :
           Cardinality({c \in EagerCalls(id) :
                          c.idx = i /\
                          c.handler = Listeners(listeners, OrigType(id))[i]}) = 1
      /\ Cardinality(EagerCalls(id)) = Len(Listeners(listeners, OrigType(id)))

C2_Witness ==
  \E id \in DOMAIN emits :
    /\ AppendFailed(id)
    /\ EagerCalls(id) # {}

\* C3  Every guaranteed-phase handler is handed the event with its type equal
\* to the published type followed by '-KAFKED' and with metadata.logId set to
\* the identifier the store returned for the append of that same event.
C3_GuaranteedObserves ==
  \A c \in calls :
    c.phase = "guaranteed" =>
      /\ c.type = KafkedName(OrigType(c.eventId))
      /\ c.logId # Null
      /\ c.logId = emits[c.eventId].rowId
      /\ c.logId \in DOMAIN event_log
      /\ event_log[c.logId].eventId = c.eventId

C3_Witness ==
  \E c \in calls :
    /\ c.phase = "guaranteed"
    /\ c.type = <<IM, KAFKED>>
    /\ c.logId # Null
    /\ c.logId # c.eventId

\* C4  Every eager-phase handler is handed the event with the type it was
\* published with, un-suffixed, and with no metadata.logId.
C4_EagerObserves ==
  \A c \in calls :
    c.phase = "eager" =>
      /\ c.type = OrigType(c.eventId)
      /\ c.name = c.type
      /\ ~IsKafked(c.type)
      /\ c.logId = Null

C4_Witness ==
  \E c \in calls :
    /\ c.phase = "eager"
    /\ c.handler = "Dispatcher"
    /\ c.type = <<MP>>

\* C5  For one publish the order is eager, then append, then guaranteed: no
\* eager-phase handler is invoked once db.logEvent has been called for the
\* event, all of them have been invoked by then, and every guaranteed-phase
\* handler is invoked after the append has committed.
C5_PhaseOrder ==
  /\ \A c \in calls :
       /\ c.phase = "eager" => ~c.issued /\ c.storeId = Null
       /\ c.phase = "guaranteed" => c.issued /\ c.storeId # Null
  /\ \A id \in DOMAIN emits :
       emits[id].issued =>
         \A i \in DOMAIN Listeners(listeners, OrigType(id)) :
           \E c \in EagerCalls(id) : c.idx = i /\ ~c.issued

C5_Witness ==
  \E id \in DOMAIN emits :
    /\ EagerCalls(id) # {}
    /\ GuaranteedCalls(id) # {}
    /\ Committed(id)

Caused(id) == {e \in DOMAIN born : born[e].metadata.causationId = id}

PayloadFields(payload) ==
  <<payload.chatId, payload.userId, payload.messageText>>

\* C6  The row the Projector writes is derived from the payload of the record
\* it fetched from the Event Store by metadata.logId, whatever the payload of
\* the live event is by then.
C6_RowFromStoredRecord ==
  \A id \in DOMAIN proj :
    proj[id].args # <<>> =>
      proj[id].args = PayloadFields(proj[id].fetched[1].payload)

ProjectedAfterWrite(e) ==
  \E id \in DOMAIN proj :
    /\ proj[id].out = e
    /\ proj[id].res = "ok"
    /\ proj[id].row # <<>>
    /\ proj[id].row[1] \in Range(messages)
    /\ born[e].payload = proj[id].row[1]
    /\ born[e].metadata.causationId = id
    /\ Committed(id)

C8_ProjectedAfterWrite ==
  /\ \A e \in DOMAIN born : born[e].type = <<MP>> => ProjectedAfterWrite(e)
  /\ \A c \in calls :
       c.name = <<MP>> /\ c.phase = "eager" => ProjectedAfterWrite(c.eventId)

C8_Witness ==
  \E c \in calls :
    /\ c.handler = "Dispatcher"
    /\ c.phase = "eager"
    /\ ProjectedAfterWrite(c.eventId)

\* the answer of the re-fetch was not-found or a record of another type
InvalidAnswer(p) ==
  p.answered /\ (p.fetched = <<>> \/ p.fetched[1].type # <<IM>>)

\* C9  When the re-fetch answers not-found or a record whose type is not
\* 'incoming-message', no read-model write is made and no
\* 'message-projected' event is published for that notification, and the
\* Projector takes no further step for it (no retry).
C9_InvalidSourceAbandoned ==
  /\ [](\A id \in DOMAIN proj :
          InvalidAnswer(proj[id]) =>
            /\ proj[id].args = <<>>
            /\ proj[id].res = "none"
            /\ proj[id].row = <<>>
            /\ proj[id].out = Null
            /\ Caused(id) = {}
            /\ \E l \in projLog : l.eventId = id)
  /\ [][\A id \in DOMAIN proj :
          InvalidAnswer(proj[id]) => proj'[id] = proj[id]]_vars

C9_Witness ==
  \E id \in DOMAIN proj :
    /\ InvalidAnswer(proj[id])
    /\ proj[id].fetched # <<>>
    /\ proj[id].pc = "aborted"

\* the read-model write failed after a successful re-fetch
WriteFailed(p) == p.answered /\ ~InvalidAnswer(p) /\ p.res = "err"

\* C10  When the read-model write fails after a successful re-fetch, no
\* 'message-projected' event is published, the failure is logged, the step
\* that handles it changes neither the Event Store log nor the read model nor
\* any event, and the Projector takes no further step for that notification
\* (no retry).
C10_WriteFailureAbandoned ==
  /\ [](\A id \in DOMAIN proj :
          WriteFailed(proj[id]) =>
            /\ proj[id].out = Null
            /\ proj[id].row = <<>>
            /\ Caused(id) = {}
            /\ \E l \in projLog : l.eventId = id /\ l.line = "failed")
  /\ [][\A id \in DOMAIN proj :
          /\ WriteFailed(proj[id]) => proj'[id] = proj[id]
          /\ (~WriteFailed(proj[id]) /\ WriteFailed(proj'[id])) =>
               /\ event_log' = event_log
               /\ messages' = messages
               /\ events' = events
               /\ born' = born]_vars

C10_Witness ==
  \E id \in DOMAIN proj :
    /\ WriteFailed(proj[id])
    /\ Committed(id)

\* the event was constructed by the Projector for the notification `id`
TriggeredBy(e, id) == id \in DOMAIN proj /\ proj[id].out = e

\* C11  Causal integrity: every event with a causationId names an event that
\* was constructed before it and has the same correlationId; every
\* 'message-projected' event carries the correlationId of the event that
\* triggered it and that event's eventId as causationId; the events the
\* gateway publishes have no causationId; and nothing alters either field
\* of a live event.
C11_CausalIntegrity ==
  /\ \A e \in DOMAIN born :
       /\ events[e].metadata.causationId = born[e].metadata.causationId
       /\ events[e].metadata.correlationId = born[e].metadata.correlationId
       /\ born[e].metadata.causationId # Null =>
            \E p \in DOMAIN born :
              /\ born[p].eventId = born[e].metadata.causationId
              /\ born[p].metadata.correlationId =
                   born[e].metadata.correlationId
              /\ born[p].metadata.timestamp < born[e].metadata.timestamp
       /\ born[e].type = <<MP>> =>
            \E id \in DOMAIN born :
              /\ TriggeredBy(e, id)
              /\ born[e].metadata.causationId = born[id].eventId
              /\ born[e].metadata.correlationId =
                   born[id].metadata.correlationId
              /\ born[e].metadata.correlationId # Null
       /\ born[e].type = <<IM>> => born[e].metadata.causationId = Null

C11_Witness ==
  \E e \in DOMAIN born :
    /\ born[e].type = <<MP>>
    /\ born[e].metadata.causationId # Null
    /\ born[born[e].metadata.causationId].type = <<IM>>

\* metadata objects a caller may hand to the constructor
SuppliedMetadata ==
  {[correlationId |-> 1],
   [correlationId |-> 1, logId |-> 1],
   [correlationId |-> 1, causationId |-> 2, logId |-> 3]}

\* C12  Type and logId go together: every live event whose type ends in
\* '-KAFKED' has a metadata.logId, every live event whose type does not has
\* none, and an event as constructed has none, whatever the metadata handed
\* to the constructor contains.
C12_TypeLogId ==
  /\ \A id \in DOMAIN events :
       IsKafked(events[id].type) <=> events[id].metadata.logId # Null
  /\ \A id \in DOMAIN born :
       ~IsKafked(born[id].type) /\ born[id].metadata.logId = Null
  /\ \A m \in SuppliedMetadata, t \in {<<IM>>, <<MP>>} :
       DomainEvent(1, 1, t, [messageText |-> "hi"], m).metadata.logId = Null

C12_Witness ==
  \E a, b \in DOMAIN events :
    /\ IsKafked(events[a].type)
    /\ events[a].metadata.logId # Null
    /\ ~IsKafked(events[b].type)
    /\ b \in DOMAIN emits
    /\ emits[b].res = "ok"

\* invocations of one registered handler in one phase of one publish
Deliveries(h, idx, phase, id) ==
  {c \in calls : c.handler = h /\ c.idx = idx /\ c.phase = phase /\
                 c.eventId = id}

\* C13  No duplicate delivery: in one publish a registered handler is invoked
\* at most once in the eager phase and at most once in the guaranteed phase.
C13_NoDuplicateDelivery ==
  \A c \in calls :
    /\ c.n = 1
    /\ Cardinality(Deliveries(c.handler, c.idx, c.phase, c.eventId)) = 1

C13_Witness ==
  \E id \in DOMAIN emits :
    /\ emits[id].pc = "done"
    /\ \E c \in EagerCalls(id) : c.handler \in ExtraHandlers
    /\ \E c \in GuaranteedCalls(id) : c.handler = "Projector"

\* C14  Delivery does not wait for the bus's persistence of the projected
\* event: as soon as a 'message-projected' event exists the Dispatcher has
\* been invoked with it, before db.logEvent was called for it; and once
\* db.logEvent has been called, every handler of 'message-projected' was
\* invoked before that call and before the store held the event.  This is
\* so also for the events whose append has failed.
C14_DeliveryBeforeAppend ==
  \A e \in DOMAIN born :
    born[e].type = <<MP>> =>
      /\ (e \in DOMAIN emits /\ emits[e].issued) =>
           \A i \in DOMAIN Listeners(listeners, <<MP>>) :
             \E c \in EagerCalls(e) :
               /\ c.idx = i
               /\ c.handler = Listeners(listeners, <<MP>>)[i]
               /\ ~c.issued
               /\ c.storeId = Null
      /\ \E c \in EagerCalls(e) :
           /\ c.handler = "Dispatcher"
           /\ c.payload = born[e].payload
           /\ ~c.issued

C14_Witness ==
  \E e \in DOMAIN born :
    /\ born[e].type = <<MP>>
    /\ AppendFailed(e)
    /\ ~Committed(e)
    /\ \E c \in EagerCalls(e) : c.handler = "Dispatcher"

\* the publish of `id` is suspended in `await db.logEvent(event)`
Suspended(id) == id \in DOMAIN emits /\ emits[id].pc = "awaitLogEvent"

\* C15  With several publishes in flight, no two events have the same logId
\* and no two appends were answered with the same identifier, and the logId
\* of a promoted event is the identifier of that event's own record: the
\* store's row at metadata.logId has the event's eventId.
C15_NoCrossTalk ==
  /\ \A a, b \in DOMAIN events :
       (a # b /\ events[a].metadata.logId # Null) =>
         events[a].metadata.logId # events[b].metadata.logId
  /\ \A a, b \in DOMAIN emits :
       (a # b /\ emits[a].rowId # Null) => emits[a].rowId # emits[b].rowId
  /\ \A e \in DOMAIN events :
       events[e].metadata.logId # Null =>
         /\ getEventByLogId(event_log, events[e].metadata.logId) # <<>>
         /\ getEventByLogId(event_log, events[e].metadata.logId)[1].eventId
              = events[e].eventId
         /\ events[e].metadata.logId = emits[e].rowId

C15_Witness ==
  \E a, b \in DOMAIN events :
    /\ a < b
    /\ born[a].type = <<IM>> /\ born[b].type = <<IM>>
    /\ Suspended(a) /\ emits[a].res = "ok"
    /\ events[b].metadata.logId # Null
    /\ events[b].metadata.logId # emits[a].rowId

\* the Projector's handler for `id` is suspended in one of its awaits
ProjectorSuspended(id) ==
  id \in DOMAIN proj /\ proj[id].pc \in {"awaitFetch", "awaitWrite"}

\* the connection is in a state in which the gateway publishes a frame
GatewayReady ==
  /\ currentChat # Null
  /\ wsUserId # Null
  /\ ~Refused(wsUserId, participants)
  /\ published < MaxInFlight

\* C16  No global lock: while a publish is suspended in its append, or the
\* Projector is suspended in one of its awaits, nothing holds back another
\* publish: the gateway can publish the next frame (eager phase and call of
\* db.logEvent), the store can commit the append of any other suspended
\* publish, and a publish whose append has committed can be resumed into
\* its guaranteed phase.
C16_NoGlobalLock ==
  LET busy == {a \in DOMAIN events : Suspended(a) \/ ProjectorSuspended(a)}
  IN /\ (busy # {} /\ GatewayReady) =>
          ENABLED (\E t \in ClientTexts : ConcurrentSubmit(t))
     /\ \A b \in DOMAIN emits :
          (Suspended(b) /\ busy \ {b} # {}) =>
            /\ emits[b].res = "none" => ENABLED DbLogEvent(b)
            /\ emits[b].res = "ok" => ENABLED EmitResume(b)

C16_Witness ==
  \E a, b \in DOMAIN emits :
    /\ a < b
    /\ born[a].type = <<IM>> /\ born[b].type = <<IM>>
    /\ Suspended(a) /\ emits[a].res = "none"
    /\ emits[b].pc = "done"
    /\ \E c \in GuaranteedCalls(b) : c.handler = "Projector"

\* C17  Subscription is by exact type: every invocation hands the handler an
\* event whose current type is the very string the handler is subscribed
\* to; that string is the published type in the eager phase and the
\* published type followed by '-KAFKED' in the guaranteed phase.
C17_ExactType ==
  \A c \in calls :
    /\ c.type = c.name
    /\ c.name \in DOMAIN listeners
    /\ c.idx \in DOMAIN listeners[c.name]
    /\ listeners[c.name][c.idx] = c.handler
    /\ c.phase = "eager" => c.name = OrigType(c.eventId)
    /\ c.phase = "guaranteed" => c.name = KafkedName(OrigType(c.eventId))

C17_Witness ==
  \E c, d \in calls :
    /\ c.eventId = d.eventId
    /\ c.handler = "Dispatcher" /\ c.name = <<MP>>
    /\ d.handler \in ExtraHandlers /\ d.name = <<MP, KAFKED>>
    /\ \A x \in calls : x.handler = "Dispatcher" => x.phase = "eager"

\* C18  The Event Store log is append-only and a re-fetch is idempotent: no
\* step removes or rewrites a stored record, so the store's answer for an
\* identifier it holds is the same after any step; and a stored record keeps
\* the event as it was appended, with the un-suffixed type and no logId,
\* whatever the bus does to the live event afterwards.
C18_AppendOnly ==
  /\ [](\A i \in DOMAIN event_log :
          /\ event_log[i].eventId \in DOMAIN born
          /\ event_log[i].type = OrigType(event_log[i].eventId)
          /\ ~IsKafked(event_log[i].type)
          /\ event_log[i].metadata = born[event_log[i].eventId].metadata
          /\ event_log[i] = emits[event_log[i].eventId].snap)
  /\ [][/\ Len(event_log') \in {Len(event_log), Len(event_log) + 1}
        /\ \A i \in DOMAIN event_log :
             /\ event_log'[i] = event_log[i]
             /\ getEventByLogId(event_log', i) =
                  getEventByLogId(event_log, i)]_vars

C18_Witness ==
  \E i, j \in DOMAIN event_log :
    /\ i < j
    /\ event_log[i].type = <<IM>>
    /\ events[event_log[i].eventId].type = <<IM, KAFKED>>
    /\ events[event_log[i].eventId].metadata.logId = i
    /\ event_log[j].type = <<MP>>
    /\ messages # <<>>

\* C19  A failed append is terminal: db.logEvent is called at most once for
\* a publish, and once it has failed the bus does nothing more for that
\* event: its emit record, its type and metadata, the handler invocations
\* made for it and the failure line stay as they are, the store never gets a
\* record of it, and no event is constructed that names it as its cause.
C19_FailedAppendTerminal ==
  /\ [](\A id \in DOMAIN emits :
          /\ emits[id].appends <= 1
          /\ AppendFailed(id) =>
               /\ emits[id].appends = 1
               /\ emits[id].pc = "caught"
               /\ ~Committed(id)
               /\ Caused(id) = {})
  /\ [][\A id \in DOMAIN emits :
          AppendFailed(id) =>
            /\ emits'[id] = emits[id]
            /\ events'[id].type = events[id].type
            /\ events'[id].metadata = events[id].metadata
            /\ {c \in calls' : c.eventId = id} = {c \in calls : c.eventId = id}
            /\ {l \in busLog' : l.eventId = id} =
                 {l \in busLog : l.eventId = id}
            /\ \A i \in DOMAIN event_log' : event_log'[i].eventId # id
            /\ \A e \in DOMAIN born' : born'[e].metadata.causationId # id]_vars

C19_Witness ==
  \E id \in DOMAIN emits :
    /\ AppendFailed(id)
    /\ emits[id].appends = 1
    /\ born[id].type = <<IM>>
    /\ busLog # {}

\* the fields of an event that are set by the constructor and by nothing else
Constructed(ev) ==
  [eventId |-> ev.eventId, timestamp |-> ev.metadata.timestamp,
   correlationId |-> ev.metadata.correlationId,
   causationId |-> ev.metadata.causationId]

\* C20  Events are immutable but for the promotion: eventId, timestamp,
\* correlationId and causationId of a live event are those its constructor
\* set; no step of the bus, the Projector or the gateway changes the
\* payload (only a consumer that edits the object it was handed does); and
\* the type changes in one kind of step only, the resumption of the publish
\* after its append has committed, from the constructed type to that type
\* followed by '-KAFKED', together with the assignment of metadata.logId;
\* so it changes at most once.
C20_Immutability ==
  /\ [](\A id \in DOMAIN events :
          /\ Constructed(events[id]) = Constructed(born[id])
          /\ events[id].eventId = id
          /\ events[id].type \in {OrigType(id), KafkedName(OrigType(id))})
  /\ [][\A id \in DOMAIN events :
          /\ id \in DOMAIN events'
          /\ Constructed(events'[id]) = Constructed(events[id])
          /\ events'[id].payload # events[id].payload => SubscriberResume(id)
          /\ events'[id].metadata.logId # events[id].metadata.logId <=>
               events'[id].type # events[id].type
          /\ events'[id].type # events[id].type =>
               /\ events[id].type = OrigType(id)
               /\ events'[id].type = KafkedName(OrigType(id))
               /\ emits[id].pc = "awaitLogEvent"
               /\ emits[id].res = "ok"
               /\ emits'[id].pc \in {"done", "caught"}
               /\ Committed(id)
               /\ events'[id].metadata.logId = emits[id].rowId]_vars

C20_Witness ==
  \E id \in DOMAIN events :
    /\ events[id].type = <<IM, KAFKED>>
    /\ events[id].payload = born[id].payload
    /\ id \in DOMAIN proj
    /\ proj[id].pc = "done"
    /\ proj[id].out \in DOMAIN events

\* the metadata of an instance has the three fields the constructor sets and
\* no logId
OwnMetadataOnly(ev) ==
  /\ DOMAIN ev.metadata =
       {"timestamp", "correlationId", "causationId", "logId"}
  /\ ev.metadata.logId = Null

TraceFields == {"correlationId", "causationId"}

\* C21 (as claimed)  A constructed instance has the given type and payload
\* and a fresh eventId; correlationId and causationId are the supplied
\* values whenever the metadata has them, and null otherwise; nothing else
\* is taken from the metadata.
C21_AsSupplied ==
  \A id \in DOMAIN born :
    /\ born[id].type = given[id].type
    /\ born[id].payload = given[id].payload
    /\ \A o \in DOMAIN born : o # id => born[o].eventId # born[id].eventId
    /\ OwnMetadataOnly(born[id])
    /\ \A f \in TraceFields :
         born[id].metadata[f] =
           IF f \in DOMAIN given[id].metadata
             THEN given[id].metadata[f] ELSE Null

\* C21 (amended)  As above, but a supplied value is kept only when it is
\* truthy: a supplied empty string (like a supplied null and like an absent
\* field or an omitted metadata argument) yields null.
C21_TruthyOrNull ==
  \A id \in DOMAIN born :
    /\ born[id].type = given[id].type
    /\ born[id].payload = given[id].payload
    /\ born[id].eventId = id
    /\ \A o \in DOMAIN born : o # id => born[o].eventId # born[id].eventId
    /\ OwnMetadataOnly(born[id])
    /\ \A f \in TraceFields :
         born[id].metadata[f] =
           IF f \in DOMAIN given[id].metadata /\
              given[id].metadata[f] \notin {Null, EmptyId}
             THEN given[id].metadata[f] ELSE Null

C21_Witness ==
  \E a, b \in DOMAIN born :
    /\ given[a].metadata = <<>>
    /\ born[a].metadata.correlationId = Null
    /\ "correlationId" \in DOMAIN given[b].metadata
    /\ given[b].metadata.correlationId = EmptyId
    /\ born[b].metadata.correlationId = Null
    /\ born[b].metadata.causationId = given[b].metadata.causationId

\* an asynchronous handler invoked in the eager phase of `id` has not
\* finished the work it started
EagerWorkPending(id) ==
  /\ id \in subPending
  /\ \E c \in EagerCalls(id) : c.handler = "Subscriber"
  /\ ~\E c \in GuaranteedCalls(id) : c.handler = "Subscriber"

\* C22 (as claimed)  Eager handlers have run to completion, the asynchronous
\* work they started included, before the append of the event is issued: no
\* eager handler is still at work on an event for which db.logEvent has been
\* called.
C22_EagerAwaited ==
  \A id \in DOMAIN emits : emits[id].issued => ~EagerWorkPending(id)

\* C22 (amended)  Every eager handler has been invoked, and has run up to
\* its first await, before db.logEvent is called; the bus does not await
\* what the handler started: in the step that calls db.logEvent the work of
\* every asynchronous eager handler of that event is still pending.
C22_EagerNotAwaited ==
  /\ [](\A c \in calls : c.phase = "eager" => ~c.issued)
  /\ [][\A id \in DOMAIN emits' :
          ((id \notin DOMAIN emits \/ ~emits[id].issued) /\ emits'[id].issued)
            => /\ \A i \in DOMAIN Listeners(listeners, OrigType(id)') :
                    \E c \in calls' :
                      c.eventId = id /\ c.phase = "eager" /\ c.idx = i
               /\ \A c \in calls' :
                    (c.eventId = id /\ c.phase = "eager" /\
                     c.handler = "Subscriber") => id \in subPending']_vars

C22_Witness ==
  \E id \in DOMAIN emits :
    /\ EagerWorkPending(id)
    /\ emits[id].pc = "done"
    /\ IsKafked(events[id].type)

\* user `u` is one of the two participants of chat `c`
Participates(u, c) ==
  /\ c \in DOMAIN ChatTable
  /\ u \in {ChatTable[c].id_user1, ChatTable[c].id_user2}

\* C24  The gateway publishes an 'incoming-message' event with chatId = c
\* and userId = u only for a user u who is one of the two participants of
\* chat c, whichever chat the connection selected before.
C24_ParticipantsOnly ==
  \A id \in DOMAIN born :
    born[id].type = <<IM>> =>
      Participates(born[id].payload.userId, born[id].payload.chatId)

\* the append of the 'incoming-message' event `id` has succeeded
AppendSucceeded(id) ==
  /\ id \in DOMAIN emits
  /\ emits[id].res = "ok"
  /\ OrigType(id) = <<IM>>

\* re-fetch and read-model write of the Projector have succeeded for `id`
ProjectionSucceeded(id) ==
  /\ id \in DOMAIN proj
  /\ proj[id].answered
  /\ proj[id].res = "ok"

\* a 'message-projected' event for `id` exists and the Dispatcher has it
ProjectedDelivered(id) ==
  \E e \in DOMAIN born :
    /\ TriggeredBy(e, id)
    /\ born[e].type = <<MP>>
    /\ \E c \in EagerCalls(e) : c.handler = "Dispatcher"

\* C23  Liveness of the pipeline under a fair event loop: once the append of
\* an 'incoming-message' event has succeeded, its guaranteed-phase handlers
\* are eventually invoked; and once the Projector's re-fetch and write have
\* succeeded for it, a 'message-projected' event is eventually published
\* and handed to its eager-phase handlers.  (A success, once recorded,
\* stays, and so does an invocation: "each success leads to its
\* invocation" is "from some point on no success lacks its invocation".)
PipelineSettled ==
  /\ \A id \in DOMAIN emits :
       AppendSucceeded(id) =>
         \E c \in GuaranteedCalls(id) : c.handler = "Projector"
  /\ \A id \in DOMAIN proj :
       ProjectionSucceeded(id) => ProjectedDelivered(id)

C23_PipelineLive == <>[]PipelineSettled

C23_Witness ==
  \E id \in DOMAIN proj :
    /\ AppendSucceeded(id)
    /\ ProjectionSucceeded(id)
    /\ ProjectedDelivered(id)
    /\ proj[id].pc = "done"

\* ---------------------------------------------------------------- C25
\* two events of the awaiting producer, A published before B
PublishedInTurn(a, b) ==
  /\ a \in DOMAIN emits
  /\ b \in DOMAIN emits
  /\ a < b
  /\ born[a].type = <<IM>>
  /\ born[b].type = <<IM>>

\* every handler registered for the guaranteed phase of `id` has been invoked
AllGuaranteedInvoked(id) ==
  LET hs == Listeners(listeners, <<IM, KAFKED>>)
  IN \A i \in DOMAIN hs :
       \E c \in GuaranteedCalls(id) : c.idx = i /\ c.handler = hs[i]

\* ... every one up to the first that raises
GuaranteedInvokedUpToRaise(id) ==
  LET hs == Listeners(listeners, <<IM, KAFKED>>)
  IN \A i \in DOMAIN hs :
       (\A j \in 1..(i - 1) : hs[j] # "Thrower") =>
         \E c \in GuaranteedCalls(id) : c.idx = i /\ c.handler = hs[i]

LogOrder(a, b) ==
  (Committed(a) /\ Committed(b)) =>
    StoreIdOf(event_log, a) < StoreIdOf(event_log, b)

\* C25 as stated: whenever a producer that awaits publish(A) has issued
\* publish(B), A is committed, all of A's guaranteed-phase handlers have
\* been invoked, and A's record precedes B's.
C25_AwaitedCommits ==
  \A a \in DOMAIN emits, b \in DOMAIN emits :
    PublishedInTurn(a, b) =>
      /\ Committed(a)
      /\ AllGuaranteedInvoked(a)
      /\ LogOrder(a, b)

\* C25  When a producer awaits publish(A) before issuing publish(B) and A's
\* append succeeded, then in the state from which B is published (so before
\* any eager-phase handler of B runs) A is committed and A's
\* guaranteed-phase handlers have been invoked, up to the first that
\* raises; and A's store record precedes B's whenever both are in the log.
\* An awaited publish(A) whose append failed, or was never issued, completes
\* all the same, and then B follows an A that is not in the log.
C25_AwaitedOrder ==
  /\ [][\A b \in InFlightEventIds :
          (b \notin DOMAIN emits /\ b \in DOMAIN emits'
             /\ born'[b].type = <<IM>>) =>
            \A a \in DOMAIN emits :
              (born[a].type = <<IM>> /\ emits[a].res = "ok") =>
                /\ EagerCalls(b) = {}
                /\ Committed(a)
                /\ GuaranteedInvokedUpToRaise(a)]_vars
  /\ [](\A a \in DOMAIN emits, b \in DOMAIN emits :
          PublishedInTurn(a, b) => LogOrder(a, b))

C25_Witness ==
  \E a \in DOMAIN emits, b \in DOMAIN emits :
    /\ PublishedInTurn(a, b)
    /\ emits[a].res = "ok"
    /\ Committed(a)
    /\ Committed(b)
    /\ GuaranteedInvokedUpToRaise(a)
    /\ EagerCalls(b) # {}
    /\ StoreIdOf(event_log, a) < StoreIdOf(event_log, b)

\* ---------------------------------------------------------------- C26
\* the calls made for one event
CallsOf(id) == {c \in calls : c.eventId = id}

\* C26  The subscription table is the only state of the bus.  A step that
\* changes it is a subscribe: it appends one handler to the list of one
\* type, keeps every other registration in place, appends nothing to the
\* store and invokes no handler.  A step of a publish call (anything that
\* touches events, calls or the store) leaves the table as it was.  Once a
\* publish call has returned, the bus does nothing more with its event: no
\* further call, append or promotion for it.  The table holds handlers only.
C26_Frame ==
  /\ [][/\ (listeners' # listeners) =>
             /\ \E t \in SubscribableTypes, h \in ExtraHandlers :
                  /\ listeners'[t] = listeners[t] \o <<h>>
                  /\ \A u \in SubscribableTypes \ {t} :
                       listeners'[u] = listeners[u]
             /\ UNCHANGED <<busVars, messages, projLog, uuidNext>>
        /\ (busVars' # busVars) => (listeners' = listeners)
        /\ \A id \in DOMAIN emits :
             PublishCompleted(id) =>
               /\ emits'[id] = emits[id]
               /\ {c \in calls' : c.eventId = id} = CallsOf(id)
               /\ StoreIdOf(event_log', id) = StoreIdOf(event_log, id)
               /\ events'[id].type = events[id].type
               /\ events'[id].metadata = events[id].metadata]_vars
  /\ [](\A t \in DOMAIN listeners :
          Range(listeners[t]) \subseteq
            {"Projector", "Dispatcher"} \cup ExtraHandlers)

C26_Witness ==
  /\ ExtraCount(listeners) > 0
  /\ \E id \in DOMAIN emits :
       /\ PublishCompleted(id)
       /\ emits[id].res = "ok"
       /\ CallsOf(id) # {}
  /\ \E id \in DOMAIN emits : ~PublishCompleted(id)

\* ---------------------------------------------------------------- C27
\* the events of one chain
Chain(corr) == {e \in DOMAIN born : born[e].metadata.correlationId = corr}

\* the Projector's invocations for one event
ProjectorCalls(id) == {c \in calls : c.eventId = id /\ c.handler = "Projector"}

\* the 'incoming-message' events that are in the store
IncomingRecords ==
  {id \in DOMAIN born : born[id].type = <<IM>> /\ Committed(id)}

\* C27  Each published 'incoming-message' event is projected at most once:
\* the Projector is invoked at most once for it and only when it is in the
\* store, there is at most one read-model row and at most one
\* 'message-projected' event per 'incoming-message' record, a
\* 'message-projected' event causes no further event and never reaches the
\* Projector, and a chain holds at most two events.
C27_ProjectedOnce ==
  /\ \A id \in DOMAIN born :
       /\ Cardinality(ProjectorCalls(id)) <= 1
       /\ ProjectorCalls(id) # {} => id \in IncomingRecords
       /\ Cardinality(Caused(id)) <= 1
       /\ Caused(id) # {} =>
            /\ id \in IncomingRecords
            /\ id \in DOMAIN proj
            /\ proj[id].row # <<>>
       /\ born[id].type = <<MP>> => Caused(id) = {} /\ id \notin DOMAIN proj
       /\ born[id].metadata.correlationId # Null =>
            Cardinality(Chain(born[id].metadata.correlationId)) <= 2
  /\ Len(messages) <= Cardinality(IncomingRecords)
  /\ Cardinality({e \in DOMAIN born : born[e].type = <<MP>>}) <= Len(messages)
  /\ \A id \in DOMAIN proj :
       proj[id].row # <<>> => proj[id].row[1] \in Range(messages)

C27_Witness ==
  \E id \in IncomingRecords, e \in DOMAIN born :
    /\ Caused(id) = {e}
    /\ born[e].type = <<MP>>
    /\ Committed(e)
    /\ PublishCompleted(e)
    /\ Chain(born[id].metadata.correlationId) = {id, e}
    /\ Len(messages) = 1

\* ---------------------------------------------------------------- C28
\* the invocations of a handler that raised, for one event
RaisedCalls(id) == {c \in CallsOf(id) : c.handler = "Thrower"}

BusLogged(id) == \E l \in busLog : l.eventId = id

\* C28  publish never fails towards its caller.  Every publish call is
\* either waiting for the store or has returned, normally ("done") or
\* through the catch block of the bus ("caught"); it went through the catch
\* block exactly when the append failed or a handler raised, and then the
\* error is on the log of the bus.  The callers went on as if nothing had
\* happened: the gateway has counted every message it published, and a
\* Projector whose 'message-projected' publish failed has finished without
\* an error line of its own.
C28_PublishNeverFails ==
  /\ \A id \in DOMAIN born : id \in DOMAIN emits
  /\ \A id \in DOMAIN emits :
       /\ emits[id].pc \in {"awaitLogEvent", "done", "caught"}
       /\ (AppendFailed(id) \/ RaisedCalls(id) # {}) <=>
            emits[id].pc = "caught"
       /\ emits[id].pc = "caught" <=> BusLogged(id)
  /\ published = Cardinality({id \in DOMAIN born : born[id].type = <<IM>>})
  /\ \A id \in DOMAIN proj :
       proj[id].out # Null =>
         /\ proj[id].out \in DOMAIN emits
         /\ proj[id].pc = "done"
         /\ \A l \in projLog : l.eventId # id

C28_Witness ==
  \E a \in DOMAIN emits, b \in DOMAIN emits :
    /\ born[a].type = <<IM>>
    /\ RaisedCalls(a) # {}
    /\ Committed(a)
    /\ emits[a].pc = "caught"
    /\ TriggeredBy(b, a)
    /\ AppendFailed(b)
    /\ emits[b].pc = "caught"
    /\ BusLogged(a)
    /\ BusLogged(b)
    /\ proj[a].pc = "done"
    /\ published = 1

\* ---------------------------------------------------------------- C29
\* the eager-phase invocations for `id` that raised
EagerRaised(id) == {c \in RaisedCalls(id) : c.phase = "eager"}

\* a handler registered for the eager phase of `id` after one that raised
SkippedEager(id) ==
  LET hs == Listeners(listeners, born[id].type)
  IN {i \in DOMAIN hs : \E r \in EagerRaised(id) : r.idx < i}

GuaranteedRaised(id) == {c \in RaisedCalls(id) : c.phase = "guaranteed"}

\* a handler registered for the guaranteed phase of `id` after one that
\* raised
SkippedGuaranteed(id) ==
  LET hs == Listeners(listeners, KafkedName(born[id].type))
  IN {i \in DOMAIN hs : \E r \in GuaranteedRaised(id) : r.idx < i}

LoggedInTurn(a, b) ==
  /\ a \in DOMAIN proj
  /\ b \in DOMAIN proj
  /\ born[a].type = <<IM>>
  /\ born[b].type = <<IM>>
  /\ Committed(a)
  /\ Committed(b)
  /\ StoreIdOf(event_log, a) < StoreIdOf(event_log, b)

\* C31  Without producer-side awaiting the read model is not ordered by the
\* log.  Each run of the Projector suspends on its own re-fetch and write:
\* while the run for an earlier record A is still suspended and has written
\* nothing, the run for a later record B can take every one of its steps
\* (the answer of the re-fetch, the write, the publication of
\* 'message-projected').  So B's row and B's 'message-projected' can come
\* before A's; C31_Witness is such a state.
C31_ProjectorsIndependent ==
  \A a \in DOMAIN proj, b \in DOMAIN proj :
    (LoggedInTurn(a, b) /\ ProjectorSuspended(a) /\ proj[a].row = <<>>) =>
      /\ proj[b].pc = "awaitFetch" => ENABLED ProjectorAfterFetch(b, "row")
      /\ (proj[b].pc = "awaitWrite" /\ proj[b].res = "none") =>
           ENABLED DbAddMessage(b)
      /\ (proj[b].pc = "awaitWrite" /\ proj[b].res = "ok") =>
           ENABLED ProjectorAfterWrite(b)

C31_Witness ==
  \E a \in DOMAIN proj, b \in DOMAIN proj :
    /\ LoggedInTurn(a, b)
    /\ events[a].metadata.logId < events[b].metadata.logId
    /\ proj[a].row # <<>>
    /\ proj[b].row # <<>>
    /\ proj[b].row[1].id < proj[a].row[1].id
    /\ proj[a].out # Null
    /\ proj[b].out # Null
    /\ proj[b].out < proj[a].out
    /\ \E c \in EagerCalls(proj[b].out) : c.handler = "Dispatcher"
    /\ \E c \in EagerCalls(proj[a].out) : c.handler = "Dispatcher"

====
